---- MODULE Spec2Model ----
(***************************************************************************)
(* PetConnection repricer: the Profit Model (compute_profit_percentage),   *)
(* the Price Solver (find_selling_price), the quantity-discount rows of    *)
(* the multiple mode and the postage eligibility filter                    *)
(* (format_postage_options), as in src/PCProfitCalculator.py, and the      *)
(* Price Solver of src/PCRepricer.py, which has no zero guard, no floor    *)
(* and no rounding.                                                        *)
(*                                                                         *)
(* Arithmetic.  The program computes in binary floating point; the model   *)
(* computes the same expressions exactly.  Money is an integer number of   *)
(* ticks: one penny (0.01) is TicksPerPenny ticks, and every money input   *)
(* is a multiple of Percent ticks, so that the initial guess               *)
(* (sum * (100 + fee + VAT + target) / 100) is a whole number of ticks.    *)
(* A profit fraction is a rational [num, den] with den > 0; den = 0 is the *)
(* ZeroDivisionError a division by zero raises.                            *)
(***************************************************************************)
EXTENDS Integers, Sequences, FiniteSets

\* ------------------------------------------------------------- bounds
\* Money inputs are multiples of 1/UnitsPerPenny of a penny.
UnitsPerPenny == 2
\* Small money inputs range over 0..MaxSmallAmount input units.
MaxSmallAmount == 1
\* The largest "maximum quantity" the user enters (the form's minimum is 2).
MaxQuantity == 3
\* The most postage options a configuration holds.
MaxOptions == 2

\* ---------------------------------------------------------- constants
VAT_VALUE == 20
\* A loop that runs one iteration too many.
max_iterations_off_by_one == 10000 + 1

max_iterations == 10000
\* Percentages are divided by 100 (platform_fee / 100, VAT_VALUE / 100, ...).
Percent == 100
\* Python's None (a postage option without "max_value").
None == -1

TicksPerPenny == UnitsPerPenny * Percent
Pence(p) == p * TicksPerPenny
\* An amount given in input units (1/UnitsPerPenny penny), in ticks.
Units(u) == u * Percent

\* ----------------------------------------------------------- rationals
Abs(x) == IF x < 0 THEN -x ELSE x
Max(a, b) == IF a >= b THEN a ELSE b

RECURSIVE GCD(_, _)
GCD(a, b) == IF b = 0 THEN a ELSE GCD(b, a % b)

Frac(n, d) == [num |-> n, den |-> d]
ZeroDivisionError == Frac(0, 0)
\* The float 0.0.
Zero == Frac(0, 1)

\* x / y: Python raises ZeroDivisionError when y = 0.  The quotient is kept
\* with a positive denominator.
Divide(n, d) ==
    IF d = 0 THEN ZeroDivisionError
    ELSE IF d < 0 THEN Frac(-n, -d)
    ELSE Frac(n, d)

\* x * k < y * m for k, m > 0.  The case split only keeps the products
\* inside TLC's 32-bit integers; the value is that of x * k < y * m.
ProdLess(x, k, y, m) ==
    IF x <= 0 /\ y > 0 THEN x < 0 \/ y > 0
    ELSE IF x >= 0 /\ y <= 0 THEN FALSE
    ELSE IF x > 0 THEN (x <= (y * m) \div k) /\ (x * k < y * m)
    ELSE (-y <= ((-x) * k) \div m) /\ ((-y) * m < (-x) * k)

FracLess(a, b) ==
    LET g == GCD(a.den, b.den)
    IN  ProdLess(a.num, b.den \div g, b.num, a.den \div g)

FracEq(a, b) ==
    LET g == GCD(a.den, b.den)
    IN  a.num * (b.den \div g) = b.num * (a.den \div g)

FracSub(a, b) ==
    LET g == GCD(a.den, b.den)
    IN  Frac(a.num * (b.den \div g) - b.num * (a.den \div g),
             (a.den \div g) * b.den)

FracAbs(a) == Frac(Abs(a.num), a.den)

\* ------------------------------------------------------- Profit Model
\* Amounts inside compute_profit_percentage are held in 1/Scale tick, which
\* makes each of its divisions (by 100, by 120) exact.
Scale == 3 * Percent

\* The Profit Model with all the costs added to the profit, not taken off it.
compute_profit_percentage_costs_added(sell_price, post_cost, cost_price, platform_fee, extra_cost) ==
    Divide(sell_price * ((Scale \div Percent) * (Percent - platform_fee))
             - sell_price * ((Scale * 20) \div 120)
             + Scale * (post_cost + cost_price + extra_cost),
           Scale * sell_price)

compute_profit_percentage_unguarded(sell_price, post_cost, cost_price, platform_fee, extra_cost) ==
    LET sell_price_minus_fee == sell_price * ((Scale \div Percent) * (Percent - platform_fee))
        sell_price_vat == sell_price * ((Scale * 20) \div 120)
        post_cost_vat == post_cost * ((Scale \div Percent) * VAT_VALUE)
        cost_price_vat == cost_price * ((Scale \div Percent) * VAT_VALUE)
        total_vat_paid == post_cost_vat + cost_price_vat
        income_after_fees == sell_price_minus_fee - Scale * post_cost
        extra_vat_due == sell_price_vat - total_vat_paid
        profit == income_after_fees
                  - (Scale * cost_price + cost_price_vat + extra_vat_due + Scale * extra_cost)
    IN  Divide(profit, Scale * sell_price)

\* The Profit Model whose early return is taken below 0 and not at 0.
compute_profit_percentage_guard_below_zero(sell_price, post_cost, cost_price, platform_fee, extra_cost) ==
    IF sell_price < 0
    THEN Zero
    ELSE compute_profit_percentage_unguarded(sell_price, post_cost, cost_price,
                                             platform_fee, extra_cost)

\* The Profit Model with the output VAT taken as sell_price / 100 * 20.
compute_profit_percentage_vat_on_net(sell_price, post_cost, cost_price, platform_fee, extra_cost) ==
    IF sell_price = 0
    THEN Zero
    ELSE Divide(sell_price * ((Scale \div Percent) * (Percent - platform_fee))
                  - Scale * post_cost
                  - (Scale * cost_price
                     + sell_price * ((Scale * 20) \div Percent)
                     - post_cost * ((Scale \div Percent) * VAT_VALUE)
                     + Scale * extra_cost),
                Scale * sell_price)

compute_profit_percentage(sell_price, post_cost, cost_price, platform_fee, extra_cost) ==
    IF sell_price = 0
    THEN Zero
    ELSE compute_profit_percentage_unguarded(sell_price, post_cost, cost_price,
                                             platform_fee, extra_cost)

\* ------------------------------------------------------- Price Solver
\* A tolerance of 0.1 (ten percentage points) instead of 0.0001.
tolerance_loose == Frac(1, 10)

tolerance == Frac(1, 10000)
\* The walk's step, 0.01.
Step == Pence(1)

target_profit_decimal(target_profit_pct) == Frac(target_profit_pct, Percent)

InitialSellPrice(a) ==
    ((a.cost_price + a.post_cost + a.extra_cost)
        * (Percent + a.platform_fee + VAT_VALUE + a.target_profit_pct)) \div Percent

\* round(sell_price + 1e-9, 2): to the nearest penny, an exact half going up.
Round2(sell_price) == ((sell_price + Step \div 2) \div Step) * Step

ProfitAt(sell_price, a) ==
    compute_profit_percentage(sell_price, a.post_cost, a.cost_price,
                              a.platform_fee, a.extra_cost)

Diff(sell_price, a) ==
    FracSub(ProfitAt(sell_price, a), target_profit_decimal(a.target_profit_pct))

WithinTolerance(d) == FracLess(FracAbs(d), tolerance)

VARIABLES
    pc,                    \* where the program is
    caller,                \* which call of find_selling_price is running
    args,                  \* the arguments of the running call
    initial_sell_price,    \* find_selling_price's local
    sell_price,            \* find_selling_price's local: the candidate
    iterations,            \* loop iterations completed
    exit_path,             \* how the loop ended: "tolerance", "clamp", "budget"
    last_candidate,        \* the candidate the loop ended with, before rounding
    ret,                   \* the pair find_selling_price returned
    calls,                 \* the calls of find_selling_price completed so far
    cost_price,            \* the cost price entered in the form
    platform,              \* the platform's fee, target_profit_pct, extra_cost
    max_quantity,          \* multiple mode: the maximum quantity entered
    postage_by_quantity,   \* multiple mode: the postage cost chosen per quantity
    baseline_unit_sell_price,
    q,                     \* multiple mode: the quantity of the row being built
    multiple_results,      \* multiple mode: the rows built so far
    eval_prev,             \* the Profit Model evaluation before the latest
    eval_cur,              \* the latest Profit Model evaluation
    postage_options,       \* the configured postage options, in file order
    formatted              \* what format_postage_options returned

solver_vars == <<args, initial_sell_price, sell_price, iterations, exit_path,
                 last_candidate, ret>>
form_vars == <<cost_price, platform, max_quantity, postage_by_quantity>>
multiple_vars == <<baseline_unit_sell_price, q, multiple_results>>
profit_vars == <<eval_prev, eval_cur>>
postage_vars == <<postage_options, formatted>>
vars == <<pc, caller, solver_vars, calls, form_vars, multiple_vars, profit_vars,
          postage_vars>>

Args(c, p, f, t, e) ==
    [cost_price |-> c, post_cost |-> p, platform_fee |-> f,
     target_profit_pct |-> t, extra_cost |-> e]

Platform(f, t, e) == [fee |-> f, target_profit_pct |-> t, extra_cost |-> e]

NoArgs == Args(0, 0, 0, 0, 0)
NoRet == [sell_price |-> 0, profit |-> Zero]
NoEval == [evaluated |-> FALSE, sell_price |-> 0, result |-> Zero]
NoFormatted == [done |-> FALSE, available_options |-> <<>>, removed_options |-> <<>>]

\* Entry of find_selling_price: lines 42-48.
EnterSolver(a, who) ==
    /\ args' = a
    /\ caller' = who
    /\ initial_sell_price' = InitialSellPrice(a)
    /\ sell_price' = Max(0, InitialSellPrice(a))
    /\ iterations' = 0
    /\ exit_path' = "none"
    /\ last_candidate' = 0
    /\ ret' = NoRet
    /\ pc' = "loop"

\* The candidate after a step down, and whether the floor clamp stops the loop.
StepDown(s) == s - Step
\* A floor test that lets a candidate of less than a penny below 0 through.
Clamped_below_minus_one_penny(s) == s < -Step

Clamped(s) == s < 0

\* One iteration of the search loop: lines 50-63.
LoopIteration ==
    /\ pc = "loop"
    /\ iterations < max_iterations
    /\ LET d == Diff(sell_price, args)
       IN  IF WithinTolerance(d)
           THEN /\ exit_path' = "tolerance"
                /\ pc' = "return"
                /\ UNCHANGED <<sell_price, iterations>>
           ELSE IF d.num < 0
           THEN /\ sell_price' = sell_price + Step
                /\ iterations' = iterations + 1
                /\ UNCHANGED <<exit_path, pc>>
           ELSE IF Clamped(StepDown(sell_price))
           THEN /\ sell_price' = 0
                /\ exit_path' = "clamp"
                /\ pc' = "return"
                /\ UNCHANGED iterations
           ELSE /\ sell_price' = StepDown(sell_price)
                /\ iterations' = iterations + 1
                /\ UNCHANGED <<exit_path, pc>>
    /\ UNCHANGED <<caller, args, initial_sell_price, last_candidate, ret, calls,
                   form_vars, multiple_vars, profit_vars, postage_vars>>

\* range(max_iterations) is used up: the for loop ends without a break.
LoopExhausted ==
    /\ pc = "loop"
    /\ iterations = max_iterations
    /\ exit_path' = "budget"
    /\ pc' = "return"
    /\ UNCHANGED <<caller, args, initial_sell_price, sell_price, iterations,
                   last_candidate, ret, calls,
                   form_vars, multiple_vars, profit_vars, postage_vars>>

\* A return that rounds the price but keeps the profit of the unrounded one.
ReturnValue_stale_profit(s, a) ==
    [sell_price |-> Round2(s), profit |-> ProfitAt(s, a)]

\* Lines 65-69: the pair find_selling_price returns for candidate s.
ReturnValue(s, a) ==
    LET rounded == Round2(s)
    IN  [sell_price |-> rounded, profit |-> ProfitAt(rounded, a)]

\* The return of find_selling_price, to the caller `who`.
SolverReturns(who) ==
    /\ pc = "return"
    /\ caller = who
    /\ last_candidate' = sell_price
    /\ ret' = ReturnValue(sell_price, args)
    /\ sell_price' = ReturnValue(sell_price, args).sell_price
    /\ calls' = Append(calls, [args |-> args, ret |-> ReturnValue(sell_price, args)])
    /\ UNCHANGED <<caller, args, initial_sell_price, iterations, exit_path>>

\* The state before the form is submitted.
Blank ==
    /\ caller = "none"
    /\ args = NoArgs
    /\ initial_sell_price = 0
    /\ sell_price = 0
    /\ iterations = 0
    /\ exit_path = "none"
    /\ last_candidate = 0
    /\ ret = NoRet
    /\ calls = <<>>
    /\ cost_price = 0
    /\ platform = Platform(0, 0, 0)
    /\ max_quantity = 0
    /\ postage_by_quantity = <<>>
    /\ baseline_unit_sell_price = 0
    /\ q = 0
    /\ multiple_results = <<>>
    /\ eval_prev = NoEval
    /\ eval_cur = NoEval
    /\ postage_options = <<>>
    /\ formatted = NoFormatted

\* ------------------------------------------------------- single mode
\* The items (cost price, postage cost) and the platform profiles
\* (fee, target_profit_pct, extra_cost) of the single mode.
SmallAmounts == {Units(u) : u \in 0..MaxSmallAmount}
Items ==
    (SmallAmounts \X SmallAmounts)
        \cup {<<Pence(892), Pence(347)>>, <<Pence(2000), 0>>, <<Pence(100), Pence(50)>>}
Platforms ==
    {Platform(15, 16, 0), Platform(0, 0, 0), Platform(30, 40, 0),
     Platform(50, 50, 0), Platform(0, 12, Pence(1)), Platform(0, -200, 0)}

Init == pc = "form" /\ Blank

\* The form is submitted in single mode: lines 218-227, for one platform.
SubmitSingle ==
    /\ pc = "form"
    /\ \E item \in Items, pf \in Platforms :
          /\ cost_price' = item[1]
          /\ platform' = pf
          /\ EnterSolver(Args(item[1], item[2], pf.fee, pf.target_profit_pct,
                              pf.extra_cost), "single")
    /\ UNCHANGED <<calls, max_quantity, postage_by_quantity, multiple_vars,
                   profit_vars, postage_vars>>

\* find_selling_price returns to the single mode, which shows the result.
ReturnSingle ==
    /\ SolverReturns("single")
    /\ pc' = "done"
    /\ UNCHANGED <<form_vars, multiple_vars, profit_vars, postage_vars>>

Next == SubmitSingle \/ LoopIteration \/ LoopExhausted \/ ReturnSingle

Spec == Init /\ [][Next]_vars

\* ----------------------------------------------------- multiple mode
MultiCosts == {0, Pence(13)}
MultiPlatforms == {Platform(0, 12, 0)}
\* The costs of the available postage options.
PostageCosts == {0, Pence(1), Pence(5)}
\* The user's choice per quantity: option a for quantity 1, option b for the
\* larger quantities.
PostageTable(n, a, b) == [k \in 1..n |-> IF k = 1 THEN a ELSE b]

\* A total cost that is not scaled by the quantity.
TotalCost_unscaled(c, qq) == c

\* Line 248: the total cost for qq items.
TotalCost(c, qq) == c * qq

\* A row whose baseline total is the unit price, not multiplied by the quantity.
Row_baseline_not_scaled(qq, baseline_unit, r) ==
    [Quantity |-> qq, Profit |-> r.profit, Baseline_Total |-> baseline_unit,
     Discount_Amount |-> baseline_unit - r.sell_price,
     Selling_Price |-> r.sell_price,
     Discount_Pct |-> IF baseline_unit > 0
                      THEN Divide((baseline_unit - r.sell_price) * 100, baseline_unit)
                      ELSE Zero]

\* Lines 253-265: the row for quantity qq, from the baseline unit price and the
\* pair r the solver returned for the tier (the values before formatting).
Row(qq, baseline_unit, r) ==
    LET baseline_total == baseline_unit * qq
        discount_amount == baseline_total - r.sell_price
        discount_pct == IF baseline_total > 0
                        THEN Divide(discount_amount * 100, baseline_total)
                        ELSE Zero
    IN  [Quantity |-> qq, Profit |-> r.profit, Baseline_Total |-> baseline_total,
         Discount_Amount |-> discount_amount, Selling_Price |-> r.sell_price,
         Discount_Pct |-> discount_pct]

\* The form is submitted in multiple mode: lines 237-246, for one platform,
\* up to the call that solves the baseline unit price.
SubmitMultiple ==
    /\ pc = "form"
    /\ \E c \in MultiCosts, pf \in MultiPlatforms, n \in 2..MaxQuantity,
          a \in PostageCosts, b \in PostageCosts :
          /\ cost_price' = c
          /\ platform' = pf
          /\ max_quantity' = n
          /\ postage_by_quantity' = PostageTable(n, a, b)
          /\ EnterSolver(Args(c, a, pf.fee, pf.target_profit_pct, pf.extra_cost),
                         "baseline")
    /\ multiple_results' = <<>>
    /\ UNCHANGED <<calls, baseline_unit_sell_price, q, profit_vars, postage_vars>>

\* The baseline call returns: line 244; the loop over the quantities starts.
ReturnBaseline ==
    /\ SolverReturns("baseline")
    /\ baseline_unit_sell_price' = ReturnValue(sell_price, args).sell_price
    /\ q' = 1
    /\ pc' = "tier"
    /\ UNCHANGED <<form_vars, multiple_results, profit_vars, postage_vars>>

\* Lines 247-252: the call that solves the price of q items.
TierCall ==
    /\ pc = "tier"
    /\ q <= max_quantity
    /\ EnterSolver(Args(TotalCost(cost_price, q), postage_by_quantity[q],
                        platform.fee, platform.target_profit_pct,
                        platform.extra_cost), "tier")
    /\ UNCHANGED <<calls, form_vars, multiple_vars, profit_vars, postage_vars>>

\* The tier's call returns and its row is appended: lines 253-265.
ReturnTier ==
    /\ SolverReturns("tier")
    /\ multiple_results' =
          Append(multiple_results,
                 Row(q, baseline_unit_sell_price, ReturnValue(sell_price, args)))
    /\ q' = q + 1
    /\ pc' = "tier"
    /\ UNCHANGED <<form_vars, baseline_unit_sell_price, profit_vars, postage_vars>>

\* range(1, max_quantity + 1) is used up: the table is shown.
MultipleDone ==
    /\ pc = "tier"
    /\ q > max_quantity
    /\ pc' = "done"
    /\ UNCHANGED <<caller, solver_vars, calls, form_vars, multiple_vars,
                   profit_vars, postage_vars>>

NextMultiple ==
    \/ SubmitMultiple
    \/ LoopIteration
    \/ LoopExhausted
    \/ ReturnBaseline
    \/ TierCall
    \/ ReturnTier
    \/ MultipleDone

SpecMultiple == Init /\ [][NextMultiple]_vars

\* ------------------------------------------- the Profit Model, applied
\* The sell prices the Profit Model is evaluated at, and its other arguments.
SellPrices == {0, 1, Units(1), Pence(1), Pence(2), Pence(7)}
ProfitFees == {0, 15, 100}
ProfitArgs ==
    {Args(c, p, f, 0, e) : c \in SmallAmounts, p \in SmallAmounts,
                           f \in ProfitFees, e \in SmallAmounts}

InitProfit ==
    /\ pc = "profit"
    /\ \E a \in ProfitArgs : args = a
    /\ caller = "none"
    /\ initial_sell_price = 0
    /\ sell_price = 0
    /\ iterations = 0
    /\ exit_path = "none"
    /\ last_candidate = 0
    /\ ret = NoRet
    /\ calls = <<>>
    /\ cost_price = 0
    /\ platform = Platform(0, 0, 0)
    /\ max_quantity = 0
    /\ postage_by_quantity = <<>>
    /\ baseline_unit_sell_price = 0
    /\ q = 0
    /\ multiple_results = <<>>
    /\ eval_prev = NoEval
    /\ eval_cur = NoEval
    /\ postage_options = <<>>
    /\ formatted = NoFormatted

\* One call of compute_profit_percentage, at sell price s.
EvalProfit ==
    /\ pc = "profit"
    /\ \E s \in SellPrices :
          eval_cur' = [evaluated |-> TRUE, sell_price |-> s,
                       result |-> ProfitAt(s, args)]
    /\ eval_prev' = eval_cur
    /\ UNCHANGED <<pc, caller, solver_vars, calls, form_vars, multiple_vars,
                   postage_vars>>

NextProfit == EvalProfit

SpecProfit == InitProfit /\ [][NextProfit]_vars

\* ------------------------------------------------- postage eligibility
\* An option is left out when it has a max_value and the cost price is at
\* or above it.
Excluded_at_ceiling(max_value, cost) == max_value # None /\ cost >= max_value

\* Line 96: the option is left out.
Excluded(max_value, cost) == max_value # None /\ cost > max_value

\* format_postage_options, lines 85-101, over the options in dict order.  An
\* available option is its label's parts (key, cost) with the cost it maps
\* to; a removed option is its message's parts (key, max_value).
RECURSIVE format_postage_options(_, _)
format_postage_options(options, cost) ==
    IF options = <<>>
    THEN [available_options |-> <<>>, removed_options |-> <<>>]
    ELSE LET rest == format_postage_options(SubSeq(options, 1, Len(options) - 1), cost)
             data == options[Len(options)]
         IN  IF Excluded(data.max_value, cost)
             THEN [available_options |-> rest.available_options,
                   removed_options |->
                       Append(rest.removed_options,
                              [key |-> data.key, max_value |-> data.max_value])]
             ELSE [available_options |->
                       Append(rest.available_options,
                              [key |-> data.key, label_cost |-> data.cost,
                               cost |-> data.cost]),
                   removed_options |-> rest.removed_options]

\* The ceilings and the cost prices of the eligibility check: around 5.00.
Ceilings == {None, 0, Pence(500)}
PreviewCosts ==
    SmallAmounts \cup {Pence(500) - Units(1), Pence(500), Pence(500) + Units(1)}
OptionCosts == {Pence(1), Pence(347)}
\* The configurations: up to MaxOptions options, keyed 1, 2, ... in file order.
RECURSIVE PostageConfigs(_)
PostageConfigs(n) ==
    IF n = 0
    THEN {<<>>}
    ELSE PostageConfigs(n - 1)
         \cup {Append(cfg, [key |-> n, cost |-> c, max_value |-> m]) :
                 cfg \in {x \in PostageConfigs(n - 1) : Len(x) = n - 1},
                 c \in OptionCosts, m \in Ceilings}

InitPostage ==
    /\ pc = "postage"
    /\ \E cfg \in PostageConfigs(MaxOptions) : postage_options = cfg
    /\ \E c \in PreviewCosts : cost_price = c
    /\ caller = "none"
    /\ args = NoArgs
    /\ initial_sell_price = 0
    /\ sell_price = 0
    /\ iterations = 0
    /\ exit_path = "none"
    /\ last_candidate = 0
    /\ ret = NoRet
    /\ calls = <<>>
    /\ platform = Platform(0, 0, 0)
    /\ max_quantity = 0
    /\ postage_by_quantity = <<>>
    /\ baseline_unit_sell_price = 0
    /\ q = 0
    /\ multiple_results = <<>>
    /\ eval_prev = NoEval
    /\ eval_cur = NoEval
    /\ formatted = NoFormatted

\* Line 149: the options are filtered for the cost price typed so far.
FormatPostage ==
    /\ pc = "postage"
    /\ ~formatted.done
    /\ formatted' =
          [done |-> TRUE,
           available_options |->
               format_postage_options(postage_options, cost_price).available_options,
           removed_options |->
               format_postage_options(postage_options, cost_price).removed_options]
    /\ UNCHANGED <<pc, caller, solver_vars, calls, form_vars, multiple_vars,
                   profit_vars, postage_options>>

NextPostage == FormatPostage

SpecPostage == InitPostage /\ [][NextPostage]_vars

\* ------------------------------------- PCRepricer.py: the Price Solver
\* PCRepricer.py's compute_profit_percentage has no early return at sell
\* price 0: the division profit / sell_price is always performed.
RepricerProfitAt(s, a) ==
    compute_profit_percentage_unguarded(s, a.post_cost, a.cost_price,
                                        a.platform_fee, a.extra_cost)

RepricerDiff(s, a) ==
    FracSub(RepricerProfitAt(s, a), target_profit_decimal(a.target_profit_pct))

\* The cost price (number_input, minimum and default 0.0) with the postage
\* cost of the selected option, and the platforms of config.json.
RepricerItems == (SmallAmounts \X SmallAmounts) \cup {<<Pence(892), Pence(347)>>}
RepricerPlatforms == {Platform(15, 16, 0), Platform(0, 0, 0), Platform(0, 12, Pence(1))}

InitRepricer == pc = "repricer_form" /\ Blank

\* Single mode calls find_selling_price, which sets up its locals: the
\* candidate starts at the initial guess, without a floor.
RepricerSubmit ==
    /\ pc = "repricer_form"
    /\ \E item \in RepricerItems, pf \in RepricerPlatforms :
          LET a == Args(item[1], item[2], pf.fee, pf.target_profit_pct,
                        pf.extra_cost)
          IN  /\ cost_price' = item[1]
              /\ platform' = pf
              /\ args' = a
              /\ initial_sell_price' = InitialSellPrice(a)
              /\ sell_price' = InitialSellPrice(a)
    /\ caller' = "repricer"
    /\ iterations' = 0
    /\ pc' = "repricer_loop"
    /\ UNCHANGED <<exit_path, last_candidate, ret, calls, max_quantity,
                   postage_by_quantity, multiple_vars, profit_vars, postage_vars>>

\* One iteration of the loop.  The Profit Model is evaluated at the candidate
\* first; a ZeroDivisionError it raises ends the call (and the script).
RepricerLoopIteration ==
    /\ pc = "repricer_loop"
    /\ iterations < max_iterations
    /\ IF RepricerProfitAt(sell_price, args) = ZeroDivisionError
       THEN /\ exit_path' = "ZeroDivisionError"
            /\ pc' = "raised"
            /\ UNCHANGED <<sell_price, iterations>>
       ELSE LET d == RepricerDiff(sell_price, args)
            IN  IF WithinTolerance(d)
                THEN /\ exit_path' = "tolerance"
                     /\ pc' = "repricer_return"
                     /\ UNCHANGED <<sell_price, iterations>>
                ELSE /\ sell_price' = IF d.num < 0 THEN sell_price + Step
                                                  ELSE sell_price - Step
                     /\ iterations' = iterations + 1
                     /\ UNCHANGED <<exit_path, pc>>
    /\ UNCHANGED <<caller, args, initial_sell_price, last_candidate, ret, calls,
                   form_vars, multiple_vars, profit_vars, postage_vars>>

\* range(max_iterations) is used up.
RepricerLoopExhausted ==
    /\ pc = "repricer_loop"
    /\ iterations = max_iterations
    /\ exit_path' = "budget"
    /\ pc' = "repricer_return"
    /\ UNCHANGED <<caller, args, initial_sell_price, sell_price, iterations,
                   last_candidate, ret, calls,
                   form_vars, multiple_vars, profit_vars, postage_vars>>

\* The return statement: the candidate as it is, and the Profit Model
\* evaluated at it once more.
RepricerReturn ==
    /\ pc = "repricer_return"
    /\ last_candidate' = sell_price
    /\ IF RepricerProfitAt(sell_price, args) = ZeroDivisionError
       THEN /\ exit_path' = "ZeroDivisionError"
            /\ pc' = "raised"
            /\ UNCHANGED <<ret, calls>>
       ELSE /\ ret' = [sell_price |-> sell_price,
                       profit |-> RepricerProfitAt(sell_price, args)]
            /\ calls' = Append(calls, [args |-> args, ret |-> ret'])
            /\ pc' = "done"
            /\ UNCHANGED exit_path
    /\ UNCHANGED <<caller, args, initial_sell_price, sell_price, iterations,
                   form_vars, multiple_vars, profit_vars, postage_vars>>

NextRepricer ==
    RepricerSubmit \/ RepricerLoopIteration \/ RepricerLoopExhausted
        \/ RepricerReturn

SpecRepricer == InitRepricer /\ [][NextRepricer]_vars

\* ---------------------------------------------------- solver claims
Target == target_profit_decimal(args.target_profit_pct)
\* |achieved - target| < bound, for the profit fraction `achieved`.
Within(achieved, bound) == FracLess(FracAbs(FracSub(achieved, Target)), bound)

\* The walk took every one of its max_iterations steps in one direction.
OneWay ==
    \/ last_candidate = initial_sell_price + max_iterations * Step
    \/ last_candidate = initial_sell_price - max_iterations * Step

ScenarioA == args = Args(Pence(892), Pence(347), 15, 16, 0)

\* Some positive price attains the target: target/100 < 5/6 - fee/100, and
\* the costs are not all zero.
Attainable ==
    /\ 6 * (args.target_profit_pct + args.platform_fee) < 5 * Percent
    /\ args.cost_price + args.post_cost + args.extra_cost > 0

C4_ScenarioA_16to18 ==
    (pc = "done" /\ ScenarioA)
        => /\ ret.sell_price >= Pence(1600) /\ ret.sell_price <= Pence(1800)
           /\ Within(ret.profit, tolerance)

\* C4 amended: Scenario A returns the price 22.35, its profit fraction
\* within the solver's tolerance (0.0001) of 0.16.
C4_ScenarioA ==
    (pc = "done" /\ ScenarioA)
        => /\ ret.sell_price = Pence(2235)
           /\ Within(ret.profit, Frac(1, 10000))

C4_Witness == pc = "done" /\ ScenarioA /\ exit_path = "tolerance"

\* C5: the loop performs at most 10,000 iterations; the call returns a pair
\* (a price and a profit fraction, never an error); and a call whose
\* tolerance test never succeeded returns, after exactly 10,000 iterations,
\* the last candidate rounded to the penny.
C5_BoundedTermination ==
    /\ iterations <= 10000
    /\ pc = "loop" => iterations <= max_iterations
    /\ pc = "done" => ret.profit.den > 0
    /\ (pc = "done" /\ exit_path = "budget")
          => /\ iterations = 10000
             /\ ret.sell_price % Pence(1) = 0
             /\ 2 * Abs(ret.sell_price - last_candidate) <= Pence(1)

\* A call that ran out of budget with a candidate outside the tolerance.
C5_Witness ==
    /\ pc = "done" /\ exit_path = "budget" /\ iterations = 10000
    /\ ~WithinTolerance(Diff(last_candidate, args))

\* C6: on every exit path the returned price is the final candidate rounded
\* to the nearest penny (a half going up), and the returned profit fraction
\* is the Profit Model at the returned price, not at the candidate.
C6_RoundAndRecompute ==
    pc = "done"
        => /\ exit_path \in {"tolerance", "clamp", "budget"}
           /\ ret.sell_price % Pence(1) = 0
           /\ 2 * (ret.sell_price - last_candidate) <= Pence(1)
           /\ 2 * (last_candidate - ret.sell_price) < Pence(1)
           /\ ret.profit = ProfitAt(ret.sell_price, args)
           /\ sell_price = ret.sell_price

\* A return through the tolerance test whose rounding moved the price and
\* changed the profit fraction.
C6_Witness ==
    /\ pc = "done" /\ exit_path = "tolerance"
    /\ ret.sell_price # last_candidate
    /\ ret.profit # ProfitAt(last_candidate, args)

\* C10 as stated: for an attainable target the loop ends through the
\* tolerance test, at a candidate within 0.0001 of the target.
C10_WalkConverges ==
    (pc = "return" /\ Attainable)
        => /\ exit_path = "tolerance"
           /\ WithinTolerance(Diff(sell_price, args))

\* The loop is about to take the step down that leaves the candidate below 0:
\* the candidate's profit is at or above the target, outside the tolerance,
\* and the candidate is less than one step above 0.
DecrementBelowZero ==
    /\ pc = "loop" /\ iterations < max_iterations
    /\ ~WithinTolerance(Diff(sell_price, args))
    /\ Diff(sell_price, args).num >= 0
    /\ sell_price - Step < 0

\* The step taken from DecrementBelowZero sets the candidate to 0 and leaves
\* the loop at once, without another iteration.
ClampStep ==
    DecrementBelowZero
        => /\ sell_price' = 0
           /\ pc' = "return"
           /\ iterations' = iterations

\* C11: in PCProfitCalculator.find_selling_price the candidate is >= 0 at the
\* start of every loop iteration and at return, for every input; a step down
\* that takes the candidate below 0 sets it to 0 and stops the loop at once,
\* and the call then returns the price 0 with the profit fraction 0.0.
C11_FloorClamp ==
    /\ [](pc = "loop" => sell_price >= 0)
    /\ [](pc \in {"return", "done"} => sell_price >= 0)
    /\ [](pc = "done" => ret.sell_price >= 0 /\ last_candidate >= 0)
    /\ []((pc = "done" /\ exit_path = "clamp")
            => /\ last_candidate = 0
               /\ ret = [sell_price |-> 0, profit |-> Zero])
    /\ [][ClampStep]_vars

\* A call that started from a positive candidate, stepped down below 0, was
\* clamped and returned.
C11_Witness ==
    /\ pc = "done" /\ exit_path = "clamp"
    /\ initial_sell_price > 0
    /\ args.post_cost > 0
    /\ ret.sell_price = 0

\* C12 as stated: in PCRepricer.find_selling_price every candidate passed to
\* compute_profit_percentage, in each loop iteration and in the final
\* recomputation, is strictly greater than 0, for every valid input (all
\* three costs equal to 0 included), and the division never faults.
C12_PositiveAtEveryEvaluation ==
    /\ (pc = "repricer_loop" /\ iterations < max_iterations) => sell_price > 0
    /\ pc = "repricer_return" => sell_price > 0
    /\ pc # "raised"

\* -------------------------------------------------- Profit Model claims
\* C2: compute_profit_percentage at sell price 0 returns exactly 0.0, for
\* every value of the other four parameters: it raises no ZeroDivisionError,
\* and its result is not the quotient profit / sell_price.
C2_ZeroPriceGuard ==
    (eval_cur.evaluated /\ eval_cur.sell_price = 0)
        => /\ eval_cur.result # ZeroDivisionError
           /\ eval_cur.result.den # 0
           /\ eval_cur.result = Zero

\* An evaluation at sell price 0 with costs that are not zero.
C2_Witness ==
    /\ eval_cur.evaluated /\ eval_cur.sell_price = 0
    /\ args.cost_price > 0 /\ args.post_cost > 0 /\ args.extra_cost > 0

\* Two evaluations, the earlier at the lower of two positive sell prices.
Ascending ==
    /\ eval_prev.evaluated /\ eval_cur.evaluated
    /\ 0 < eval_prev.sell_price /\ eval_prev.sell_price < eval_cur.sell_price

NoCosts == args.cost_price = 0 /\ args.post_cost = 0 /\ args.extra_cost = 0

\* C3 as stated: the profit fraction is strictly increasing in the sell price
\* over the positive sell prices, also when the three costs are zero.
C3_StrictlyIncreasing ==
    Ascending => FracLess(eval_prev.result, eval_cur.result)

\* C3 amended: the profit fraction is strictly increasing in the sell price
\* over the positive sell prices when one of the costs is positive, and is
\* the same at every positive sell price when the three costs are zero.
C3_Monotone ==
    Ascending
        => IF NoCosts
           THEN FracEq(eval_prev.result, eval_cur.result)
           ELSE FracLess(eval_prev.result, eval_cur.result)

\* Two ascending evaluations with a positive cost, and a fee.
C3_Witness ==
    /\ Ascending /\ ~NoCosts /\ args.platform_fee = 15
    /\ FracLess(eval_prev.result, eval_cur.result)

\* ------------------------------------------------- multiple mode claims
Rows == 1..Len(multiple_results)
\* The row's tier has a lower postage cost than tier 1.
CheaperPostage(i) == postage_by_quantity[i] < postage_by_quantity[1]

\* C7 as stated: every row whose tier has a lower postage cost than tier 1
\* has a discount amount >= 0.
C7_DiscountNeverNegative ==
    \A i \in Rows :
        CheaperPostage(i) => multiple_results[i].Discount_Amount >= 0

\* C7 amended: when the tier-1 postage cost is at least 0.05, every row whose
\* tier has a lower postage cost than tier 1 has a discount amount >= 0.
C7_DiscountNotNegative ==
    \A i \in Rows :
        (CheaperPostage(i) /\ postage_by_quantity[1] >= Pence(5))
            => multiple_results[i].Discount_Amount >= 0

\* The row for quantity 3 of a table with tier-1 postage 0.05 and a cheaper
\* tier-3 postage, with a positive cost price.
C7_Witness ==
    /\ Len(multiple_results) >= 3
    /\ CheaperPostage(3) /\ postage_by_quantity[1] >= Pence(5)
    /\ cost_price > 0
    /\ multiple_results[3].Discount_Amount > 0

PlatformArgs(c, p) ==
    Args(c, p, platform.fee, platform.target_profit_pct, platform.extra_cost)

\* C8: the baseline unit price is solved once, for the unscaled cost price
\* with the tier-1 postage; the row for quantity i has the baseline total
\* i * that price, the sell price the solver returned for cost price * i with
\* the tier-i postage, the discount amount baseline total - sell price, and
\* the discount percentage discount amount / baseline total * 100, which is
\* 0, with no division, when the baseline total is 0.
C8_RowDerivation ==
    /\ pc = "done" /\ caller # "single"
          => Len(multiple_results) = max_quantity /\ Len(calls) = max_quantity + 1
    /\ \A i \in Rows :
          LET row == multiple_results[i]
          IN  /\ row.Quantity = i
              /\ calls[1].args = PlatformArgs(cost_price, postage_by_quantity[1])
              /\ row.Baseline_Total = i * calls[1].ret.sell_price
              /\ calls[i + 1].args = PlatformArgs(cost_price * i, postage_by_quantity[i])
              /\ row.Selling_Price = calls[i + 1].ret.sell_price
              /\ row.Profit = calls[i + 1].ret.profit
              /\ row.Discount_Amount = row.Baseline_Total - row.Selling_Price
              /\ row.Discount_Pct # ZeroDivisionError
              /\ IF row.Baseline_Total = 0
                 THEN row.Discount_Pct = Zero
                 ELSE FracEq(row.Discount_Pct,
                             Frac(row.Discount_Amount * 100, row.Baseline_Total))

\* A finished table of three rows whose last row has a positive cost, a
\* positive baseline total and a discount that is not zero.
C8_Witness ==
    /\ pc = "done" /\ Len(multiple_results) = 3
    /\ cost_price > 0
    /\ multiple_results[3].Baseline_Total > 0
    /\ multiple_results[3].Discount_Amount # 0
    /\ multiple_results[3].Discount_Pct.num # 0

\* ------------------------------------------------------ postage claims
Options == 1..Len(postage_options)
Keys(seq) == {seq[i].key : i \in 1..Len(seq)}

\* C9: an option is removed exactly when it has a max_value and the cost
\* price is above it; an option whose max_value equals the cost price, or
\* that has no max_value, is available; and every option is in exactly one of
\* the available options and the removed list, once.
C9_EligibilityFilter ==
    formatted.done
        => /\ \A i \in Options :
                LET data == postage_options[i]
                    over == data.max_value # None /\ cost_price > data.max_value
                IN  /\ (data.key \in Keys(formatted.removed_options)) <=> over
                    /\ (data.key \in Keys(formatted.available_options)) <=> ~over
                    /\ (data.max_value = None \/ data.max_value = cost_price)
                          => data.key \in Keys(formatted.available_options)
           /\ Len(formatted.available_options) + Len(formatted.removed_options)
                 = Len(postage_options)
           /\ Keys(formatted.available_options) \cup Keys(formatted.removed_options)
                 = Keys(postage_options)
           /\ \A i \in 1..Len(formatted.available_options) :
                 \E j \in Options :
                    /\ postage_options[j].key = formatted.available_options[i].key
                    /\ postage_options[j].cost = formatted.available_options[i].cost

\* The boundary of the spec: cost price 5.00 against one option with max_value
\* 5.00, which is available, and a second with max_value 0, which is removed.
C9_Witness ==
    /\ formatted.done /\ cost_price = Pence(500)
    /\ Len(postage_options) = 2
    /\ postage_options[1].max_value = Pence(500)
    /\ postage_options[2].max_value = 0
    /\ Keys(formatted.available_options) = {1}
    /\ Keys(formatted.removed_options) = {2}

====
